---- MODULE Spec2Model ----
(***************************************************************************)
(* Model of internal/repository/repository.go: the etcd-backed schema      *)
(* repository (SaveConfigSchema, GetConfigSchema, DeleteConfigSchema,      *)
(* GetSchemasByPrefix, GetLatestVersionByPrefix).                          *)
(*                                                                         *)
(* Strings whose characters the code inspects (keys, prefixes, versions)   *)
(* are sequences of one-character strings.  The store is the etcd key      *)
(* space; every client call on it (Get, Put, Delete, Get WithPrefix) is    *)
(* one atomic step of the store.  SaveConfigSchema makes two such calls,   *)
(* so it is two steps, and other callers may run between them.             *)
(***************************************************************************)
EXTENDS Integers, Sequences, FiniteSets, TLC

\* ---------------------------------------------------------------- bounds
\* Concurrent callers, calls per behaviour of each specification, and the
\* highest reading of the clock.
NProcs == 2
MaxCalls == 3
MaxSeqCalls == 4
MaxListCalls == 3
MaxStoreCalls == 3
MaxRaceCalls == 3
MaxCtxCalls == 2
MaxReadCalls == 2
MaxFields == 2
MaxClock == 1

Procs == 1..NProcs

\* ------------------------------------------------------- strings as bytes
\* Byte value of the characters that occur in the keys of the model.
Ord(c) ==
  CASE c = "." -> 46 [] c = "/" -> 47
    [] c = "0" -> 48 [] c = "1" -> 49 [] c = "2" -> 50 [] c = "3" -> 51
    [] c = "4" -> 52 [] c = "5" -> 53 [] c = "6" -> 54 [] c = "7" -> 55
    [] c = "8" -> 56 [] c = "9" -> 57
    [] c = "a" -> 97 [] c = "b" -> 98 [] c = "n" -> 110 [] c = "o" -> 111
    [] c = "s" -> 115 [] c = "v" -> 118 [] c = "x" -> 120

IsDigit(c) == Ord(c) >= 48 /\ Ord(c) <= 57

Min(a, b) == IF a < b THEN a ELSE b

\* Go's string comparison x < y: bytewise lexicographic.
StrLess(x, y) ==
  \E i \in 1..(Min(Len(x), Len(y)) + 1) :
     /\ \A j \in 1..(i - 1) : x[j] = y[j]
     /\ \/ i > Len(x) /\ i <= Len(y)
        \/ i <= Len(x) /\ i <= Len(y) /\ Ord(x[i]) < Ord(y[i])

\* The key matches the range of clientv3.WithPrefix().
HasPrefix(s, p) == Len(p) <= Len(s) /\ SubSeq(s, 1, Len(p)) = p

\* strings.Split(key, "/")
RECURSIVE Split(_)
Split(s) ==
  IF \A i \in 1..Len(s) : s[i] # "/"
  THEN << s >>
  ELSE LET i == CHOOSE i \in 1..Len(s) :
                   s[i] = "/" /\ \A j \in 1..(i - 1) : s[j] # "/"
       IN  << SubSeq(s, 1, i - 1) >> \o Split(SubSeq(s, i + 1, Len(s)))

\* --------------------------------------------------------------- semver
\* golang.org/x/mod/semver as used by the comparison function of sort.Slice.
\* The keys of the model contain no '-' and no '+', so the pre-release and
\* build branches of parse are not entered.

\* parseInt: the longest run of digits, refused when empty or when it has a
\* leading zero; <<ok, digits, rest>>.
parseInt(v) ==
  IF v = << >> \/ ~IsDigit(v[1])
  THEN [ok |-> FALSE, t |-> << >>, rest |-> v]
  ELSE LET i == CHOOSE i \in 1..Len(v) :
                   /\ \A j \in 1..i : IsDigit(v[j])
                   /\ (i = Len(v) \/ ~IsDigit(v[i + 1]))
       IN  IF v[1] = "0" /\ i # 1
           THEN [ok |-> FALSE, t |-> << >>, rest |-> v]
           ELSE [ok |-> TRUE, t |-> SubSeq(v, 1, i),
                 rest |-> SubSeq(v, i + 1, Len(v))]

Tail1(v) == SubSeq(v, 2, Len(v))

NotParsed == [ok |-> FALSE, major |-> << >>, minor |-> << >>, patch |-> << >>]

\* parse after "v" MAJOR "." MINOR ".": the patch number, then nothing.
parsePatch(major, minor, pa) ==
  IF ~pa.ok \/ pa.rest # << >> THEN NotParsed
  ELSE [ok |-> TRUE, major |-> major, minor |-> minor, patch |-> pa.t]

\* parse after "v" MAJOR ".": the minor number, then the end (patch "0")
\* or "." and the patch.
parseMinor(major, mi) ==
  IF ~mi.ok THEN NotParsed
  ELSE IF mi.rest = << >>
  THEN [ok |-> TRUE, major |-> major, minor |-> mi.t, patch |-> << "0" >>]
  ELSE IF mi.rest[1] # "." THEN NotParsed
  ELSE parsePatch(major, mi.t, parseInt(Tail1(mi.rest)))

\* parse after "v": the major number, then the end (minor and patch "0")
\* or "." and the minor.
parseMajor(ma) ==
  IF ~ma.ok THEN NotParsed
  ELSE IF ma.rest = << >>
  THEN [ok |-> TRUE, major |-> ma.t, minor |-> << "0" >>, patch |-> << "0" >>]
  ELSE IF ma.rest[1] # "." THEN NotParsed
  ELSE parseMinor(ma.t, parseInt(Tail1(ma.rest)))

\* parse: "v" MAJOR [ "." MINOR [ "." PATCH ] ]
parse(v) ==
  IF v = << >> \/ v[1] # "v" THEN NotParsed ELSE parseMajor(parseInt(Tail1(v)))

\* compareInt on decimal strings: by length, then bytewise.
compareInt(x, y) ==
  IF x = y THEN 0
  ELSE IF Len(x) < Len(y) THEN -1
  ELSE IF Len(x) > Len(y) THEN 1
  ELSE IF StrLess(x, y) THEN -1 ELSE 1

\* The first comparison that is not 0 decides.
FirstDecided(c) ==
  IF c[1] # 0 THEN c[1] ELSE IF c[2] # 0 THEN c[2] ELSE c[3]

\* The comparison of two parsed versions: an invalid version is less than a
\* valid one and equal to any other invalid one; valid ones compare by
\* major, then minor, then patch.
compareParsed(pv, pw) ==
  IF ~pv.ok /\ ~pw.ok THEN 0
  ELSE IF ~pv.ok THEN -1
  ELSE IF ~pw.ok THEN 1
  ELSE FirstDecided(<< compareInt(pv.major, pw.major),
                       compareInt(pv.minor, pw.minor),
                       compareInt(pv.patch, pw.patch) >>)

\* semver.Compare(v, w)
Compare(v, w) == compareParsed(parse(v), parse(w))

\* ----------------------------------------------------------- sort.Slice
Front(s) == SubSeq(s, 1, Len(s) - 1)
Last(s) == s[Len(s)]

\* The less function handed to sort.Slice: semver.Compare(...) == -1 on the
\* version fields.
VersionLess(a, b) == Compare(a.details.version, b.details.version) = -1

\* One pass of the inner loop of insertion sort: x moves down while it is
\* less than its left neighbour.
RECURSIVE Insert(_, _)
Insert(sorted, x) ==
  IF sorted = << >> \/ ~VersionLess(x, Last(sorted))
  THEN Append(sorted, x)
  ELSE Append(Insert(Front(sorted), x), Last(sorted))

\* sort.Slice on a slice of at most 12 elements is an insertion sort.
RECURSIVE SortSlice(_)
SortSlice(s) == IF Len(s) <= 1 THEN s ELSE Insert(SortSlice(Front(s)), Last(s))

\* ------------------------------------------------------ schema documents
\* A schema text is a document: a format, whether it parses, whether it
\* carries comments, and its fields in the order they are written.  A field
\* has a key, which is a string or (in YAML only) an integer, written by
\* its digits in name, and a value, which is a scalar or a nested mapping
\* of scalars.
NoText == [fmt |-> "none", valid |-> FALSE, comment |-> FALSE, fields |-> << >>]

Scalar(v) == [kind |-> "scalar", v |-> v, m |-> << >>]
Mapping(m) == [kind |-> "map", v |-> "", m |-> m]

\* Insertion of a field into a sequence ordered by field name.
RECURSIVE InsertByName(_, _)
InsertByName(sorted, f) ==
  IF sorted = << >> \/ Ord(Last(sorted).name) <= Ord(f.name)
  THEN Append(sorted, f)
  ELSE Append(InsertByName(Front(sorted), f), Last(sorted))

RECURSIVE SortByName(_)
SortByName(fs) ==
  IF Len(fs) <= 1 THEN fs ELSE InsertByName(SortByName(Front(fs)), Last(fs))

\* json.Marshal of the decoded YAML object writes every mapping with its
\* keys sorted, at every level.
SortedFields(fs) ==
  SortByName([i \in 1..Len(fs) |->
     IF fs[i].val.kind = "map"
     THEN [name |-> fs[i].name, int |-> fs[i].int,
           val |-> Mapping(SortByName(fs[i].val.m))]
     ELSE fs[i]])

\* The orders in which the conversion to a JSON object can visit the keys
\* of a decoded YAML mapping (a Go map, iterated in no fixed order): what
\* matters is which of two keys is visited last.
MapOrders == {"ascending", "descending"}

\* The positions of the fields that survive the conversion of the keys to
\* strings: of the fields whose keys become the same string, the one that
\* is visited last.
Surviving(fs, order) ==
  {i \in 1..Len(fs) :
     \A j \in 1..Len(fs) :
        (j # i /\ fs[j].name = fs[i].name)
           => IF order = "ascending" THEN j < i ELSE i < j}

\* The i-th smallest element of a set of positions.
Nth(S, i) == CHOOSE n \in S : Cardinality({m \in S : m <= n}) = i

\* The JSON object of a decoded YAML mapping: every key becomes a string
\* (an integer key by its digits), and a field written later under the
\* same string replaces the earlier one.
StringKeys(fs, order) ==
  [i \in 1..Cardinality(Surviving(fs, order)) |->
     [fs[Nth(Surviving(fs, order), i)] EXCEPT !.int = FALSE]]

\* yaml.YAMLToJSON: fails on text that does not parse; otherwise the JSON
\* rendering of the document (no comments, string keys, keys sorted).
YAMLToJSON(y, order) ==
  IF ~y.valid
  THEN [err |-> TRUE, text |-> NoText]
  ELSE [err |-> FALSE,
        text |-> [fmt |-> "json", valid |-> TRUE, comment |-> FALSE,
                  fields |-> SortedFields(StringKeys(y.fields, order))]]

\* yaml.JSONToYAML: fails on bytes that are no JSON; otherwise the YAML
\* rendering of the object, fields in the order of the JSON text.
JSONToYAML(j) ==
  IF ~j.valid
  THEN [err |-> TRUE, text |-> NoText]
  ELSE [err |-> FALSE,
        text |-> [fmt |-> "yaml", valid |-> TRUE, comment |-> FALSE,
                  fields |-> j.fields]]

\* ------------------------------------------------------------- envelope
NoData == [schema |-> NoText, creation_time |-> 0]

\* Mutant of ConfigSchemaData: the CreationTime is left at its zero value.
ConfigSchemaDataNoTime(schemaJson, now) == [schema |-> schemaJson, creation_time |-> 0]

\* pb.ConfigSchemaData{Schema: string(schemaJson), CreationTime: now}
ConfigSchemaData(schemaJson, now) == [schema |-> schemaJson, creation_time |-> now]

\* A value held by the store under a key; NoValue stands for no key.
NoValue == [kind |-> "none", schema |-> NoText, creation_time |-> 0]

\* json.Marshal(schemaData)
Marshal(d) == [kind |-> "json", schema |-> d.schema, creation_time |-> d.creation_time]

\* json.Unmarshal(value, &schemaData)
Unmarshal(b) ==
  IF b.kind = "json"
  THEN [err |-> FALSE, data |-> [schema |-> b.schema, creation_time |-> b.creation_time]]
  ELSE [err |-> TRUE, data |-> NoData]

\* ------------------------------------------------------------ key codec
NoDetails ==
  [organization |-> << >>, namespace |-> << >>, schemaName |-> << >>, version |-> << >>]

\* getSchemaDetailsFromKey: tokens[0..3] of the split key; indexing a slice
\* of fewer than four tokens panics.
getSchemaDetailsFromKey(k) ==
  LET tokens == Split(k)
  IN  IF Len(tokens) < 4
      THEN [panic |-> TRUE, details |-> NoDetails]
      ELSE [panic |-> FALSE,
            details |-> [organization |-> tokens[1], namespace |-> tokens[2],
                         schemaName |-> tokens[3], version |-> tokens[4]]]

\* ------------------------------------------------- inputs of the model
\* Keys handed to SaveConfigSchema: the versions of the specification's
\* example with and without a leading "v", a version that is no version,
\* and keys that do not have four non-empty segments (SaveConfigSchema
\* accepts any string as a key).
K120 == << "o", "/", "n", "/", "s", "/", "1", ".", "2", ".", "0" >>
K1100 == << "o", "/", "n", "/", "s", "/", "1", ".", "1", "0", ".", "0" >>
KV120 == << "o", "/", "n", "/", "s", "/", "v", "1", ".", "2", ".", "0" >>
KV1100 == << "o", "/", "n", "/", "s", "/", "v", "1", ".", "1", "0", ".", "0" >>
KShort == << "o", "/", "n" >>
KLong == << "o", "/", "n", "/", "s", "/", "v", "3", "/", "x" >>
KEmpty == << "o", "/", "/", "s", "/", "v", "2" >>
KX == << "o", "/", "n", "/", "s", "/", "x" >>

Keys == {K120, K1100, KV120, KV1100, KShort, KLong, KEmpty, KX}

\* Keys used where the claims are about single keys.
SomeKeys == {KV120, KV1100}

Prefixes ==
  { << "o" >>,
    << "o", "/", "n", "/", "s", "/" >>,
    << "o", "/", "n", "/", "s", "/", "v" >>,
    << "x" >> }

\* Human-authored schema texts: one with comments, unsorted fields and a
\* nested mapping, one plain, one that does not parse.
YamlA ==
  [fmt |-> "yaml", valid |-> TRUE, comment |-> TRUE,
   fields |-> << [name |-> "b", int |-> FALSE, val |-> Scalar("1")],
                 [name |-> "a", int |-> FALSE,
                  val |-> Mapping(<< [name |-> "x", v |-> "s"],
                                     [name |-> "n", v |-> "t"] >>)] >>]
YamlB ==
  [fmt |-> "yaml", valid |-> TRUE, comment |-> FALSE,
   fields |-> << [name |-> "a", int |-> FALSE, val |-> Scalar("2")] >>]
YamlBad == [fmt |-> "yaml", valid |-> FALSE, comment |-> FALSE, fields |-> << >>]

Schemas == {YamlA, YamlB, YamlBad}

\* A text with the integer key 1 and the string key "1" in one mapping.
YamlKeys ==
  [fmt |-> "yaml", valid |-> TRUE, comment |-> FALSE,
   fields |-> << [name |-> "1", int |-> TRUE, val |-> Scalar("s")],
                 [name |-> "1", int |-> FALSE, val |-> Scalar("t")] >>]

\* The texts of the callers that read back what they saved.
AuthoredSchemas == Schemas \cup {YamlKeys}

\* The texts handed to the transcoder alone: every mapping of at most
\* MaxFields fields with distinct keys, taken from two string keys and one
\* integer key, with scalars and a nested mapping as values, with and
\* without comments; and a text that does not parse.
KeyChoices ==
  {[name |-> "a", int |-> FALSE], [name |-> "1", int |-> FALSE],
   [name |-> "1", int |-> TRUE]}
ValueChoices == {Scalar("s"), Scalar("t"), Mapping(<< [name |-> "x", v |-> "s"] >>)}
FieldChoices ==
  {[name |-> k.name, int |-> k.int, val |-> v] : k \in KeyChoices, v \in ValueChoices}
FieldSeqs ==
  {f \in UNION {[1..n -> FieldChoices] : n \in 0..MaxFields} :
     \A i, j \in 1..Len(f) :
        i # j => << f[i].name, f[i].int >> # << f[j].name, f[j].int >>}
Texts ==
  {[fmt |-> "yaml", valid |-> TRUE, comment |-> c, fields |-> f] :
     c \in BOOLEAN, f \in FieldSeqs} \cup {YamlBad}

\* Values another client of the store can leave under a key: bytes that are
\* no JSON, and a JSON envelope whose schema string cannot be transcoded.
Garbage == [kind |-> "garbage", schema |-> NoText, creation_time |-> 0]
BadEnvelope ==
  [kind |-> "json",
   schema |-> [fmt |-> "json", valid |-> FALSE, comment |-> FALSE, fields |-> << >>],
   creation_time |-> 0]

ForeignValues == {Garbage, BadEnvelope}

\* Keys of the specification with a foreign writer: two well-formed keys
\* and one of two segments.
StoreKeys == {KV120, KV1100, KShort}

\* ---------------------------------------------------------------- state
VARIABLES
  store,    \* the etcd key space: key -> stored value, NoValue when absent
  clock,    \* what time.Now() returns; it never goes back
  call,     \* per caller: the SaveConfigSchema it is in, between Get and Put
  ret,      \* the call that returned last, with what it returned
  ncalls,   \* calls started so far
  last,     \* per key: the last successful Save or Delete callers have seen
  oks,      \* per key: Saves that returned success since the key was removed
  dels,     \* per key: Deletes that returned success since the key was written
  doc       \* a schema text on its way through the transcoder

vars == << store, clock, call, ret, ncalls, last, oks, dels, doc >>

EmptyStore == [k \in Keys |-> NoValue]

\* What the callers know of a key.  reused: the key is in a life that began
\* right after a successful Delete of a record a Save had written, and old
\* is that record's text and creation time.
NoOld == [schema |-> NoText, time |-> 0]

NoLast ==
  [kind |-> "none", schema |-> NoText, time |-> 0,
   refused |-> NoText, touched |-> FALSE, reused |-> FALSE, old |-> NoOld]

\* A caller outside any call.  ctx is the context of the call: live, or
\* done because its deadline expired or because the caller cancelled it.
\* id, pre and prior record when the call started and what it found then;
\* they are read by the properties only.
NoCall ==
  [pc |-> "ready", op |-> "none", key |-> << >>, schema |-> NoText,
   ctx |-> "none", now |-> 0, serializedData |-> NoValue, err |-> FALSE,
   result |-> "none", data |-> NoData, list |-> << >>, version |-> << >>,
   id |-> 0, pre |-> EmptyStore, prior |-> NoLast]

\* No text in the transcoder.
NoDoc == [step |-> "none", text |-> NoText, canonical |-> NoText, human |-> NoText]

\* An empty store and a repository that has made no call.
Fresh ==
  /\ store = EmptyStore
  /\ clock = 0
  /\ call = [p \in Procs |-> NoCall]
  /\ ret = NoCall
  /\ ncalls = 0
  /\ last = [k \in Keys |-> NoLast]
  /\ oks = [k \in Keys |-> 0]
  /\ dels = [k \in Keys |-> 0]

Init == Fresh /\ doc = NoDoc

\* ----------------------------------------------------- store operations
\* clientv3 Get(ctx, key): the number of keys found.
Count(st, k) == IF st[k].kind = "none" THEN 0 ELSE 1

\* Mutant of Deleted: the store reports a removed key whatever it holds.
DeletedAlways(st, k) == 1

\* clientv3 Delete(ctx, key): the number of keys removed.
Deleted(st, k) == IF st[k].kind = "none" THEN 0 ELSE 1

\* The keys of a set as a sequence in ascending byte order, as etcd returns
\* the result of a range request.
RECURSIVE SortedKeys(_)
SortedKeys(S) ==
  IF S = {} THEN << >>
  ELSE LET m == CHOOSE m \in S : \A k \in S : k = m \/ StrLess(m, k)
       IN  << m >> \o SortedKeys(S \ {m})

\* clientv3 Get(ctx, prefix, WithPrefix()): the matching keys, ascending.
GetWithPrefix(st, prefix) ==
  SortedKeys({k \in Keys : st[k].kind # "none" /\ HasPrefix(k, prefix)})

\* clientv3 Put(ctx, key, value): the store after the write.
PutKey(st, k, v) == [st EXCEPT ![k] = v]

\* Mutant of DeleteKey: the store removes every key.
DeleteKeyAll(st, k) == [j \in Keys |-> NoValue]

\* clientv3 Delete(ctx, key): the store after the removal.
DeleteKey(st, k) == [st EXCEPT ![k] = NoValue]

\* Mutant of AlreadyExists: the existence check is off by one.
AlreadyExistsOffByOne(count) == count > 1

\* if res.Count > 0: the key already exists.
AlreadyExists(count) == count > 0

\* Mutant of NoKvs: a response without key-value pairs is decoded anyway.
NoKvsIgnored(count) == FALSE

\* if len(resp.Kvs) == 0: the key holds no record.
NoKvs(count) == count = 0

\* Mutant of Removed: a Delete that removed nothing passes for a removal.
RemovedOrNone(deleted) == deleted >= 0

\* if res.Deleted > 0: the store removed the key.
Removed(deleted) == deleted > 0

\* --------------------------------------------------------------- actions
\* What the callers know of key k when a Save on it starts: a Save after a
\* Delete starts a new life of the key.
AtSave(k) ==
  IF last[k].kind = "deleted"
  THEN [NoLast EXCEPT !.reused = last[k].reused, !.old = last[k].old]
  ELSE last[k]

\* What is known after a Save that did not succeed: nothing, unless a
\* record was known before.
Failed(l) == IF l.kind = "none" THEN NoLast ELSE l

\* A call on key (or prefix) k that starts now, under a context derived
\* from the caller's with context.WithTimeout.
NewCall(o, k, s, prior) ==
  [NoCall EXCEPT !.op = o, !.key = k, !.schema = s, !.ctx = "live",
                 !.now = clock, !.id = ncalls + 1, !.pre = store,
                 !.prior = prior]

\* SaveConfigSchema up to the Put: the Get of the key, the existence check,
\* the transcoding, the envelope with time.Now() and its serialization.
\* storeErr: the Get does not answer (store unreachable, deadline expired).
SaveConfigSchema(p, k, s) ==
  /\ call[p].pc = "ready"
  /\ \E storeErr \in BOOLEAN,
        schemaJson \in {YAMLToJSON(s, order) : order \in MapOrders} :
       LET c == NewCall("Save", k, s, AtSave(k))
       IN  IF storeErr
           THEN /\ ret' = [c EXCEPT !.err = TRUE, !.result = "Unavailable"]
                /\ last' = [last EXCEPT ![k] = Failed(AtSave(k))]
                /\ call' = call
           ELSE IF AlreadyExists(Count(store, k))
           THEN /\ ret' = [c EXCEPT !.result = "Conflict"]
                /\ last' = [last EXCEPT ![k] =
                              IF AtSave(k).kind = "saved"
                              THEN [AtSave(k) EXCEPT !.refused = s,
                                                     !.touched = TRUE]
                              ELSE Failed(AtSave(k))]
                /\ call' = call
           ELSE IF schemaJson.err
           THEN /\ ret' = [c EXCEPT !.result = "InvalidSchema"]
                /\ last' = [last EXCEPT ![k] = Failed(AtSave(k))]
                /\ call' = call
           ELSE /\ call' = [call EXCEPT ![p] =
                              [c EXCEPT !.pc = "put",
                                        !.serializedData =
                                           Marshal(ConfigSchemaData(schemaJson.text, clock))]]
                /\ last' = [last EXCEPT ![k] = AtSave(k)]
                /\ ret' = ret
  /\ ncalls' = ncalls + 1
  /\ UNCHANGED << store, clock, oks, dels, doc >>

\* What client.Put can do under a context.  "ok": the store writes and
\* answers.  "fail": the request never reaches the store.  "lost": the
\* store writes but the client returns the context's error, because the
\* answer does not arrive before the context is done.  With a context that
\* is done when Put is called the client returns the context's error, and
\* the request may or may not have been sent before it noticed.
PutOutcomes(ctx) ==
  IF ctx = "live" THEN {"ok", "fail", "lost"} ELSE {"fail", "lost"}

\* The Put of SaveConfigSchema and its return.  The Put is unconditional:
\* line 69 is reached whatever happened to the store and to the context
\* since the Get.
SaveConfigSchemaPut(p) ==
  /\ call[p].pc = "put"
  /\ \E outcome \in PutOutcomes(call[p].ctx) :
       LET c == call[p]
           k == c.key
       IN  /\ store' = IF outcome = "fail" THEN store
                       ELSE PutKey(store, k, c.serializedData)
           /\ ret' = [c EXCEPT !.pc = "ready",
                               !.err = (outcome # "ok"),
                               !.result = IF outcome = "ok" THEN "ok"
                                          ELSE "Unavailable"]
           /\ last' = IF outcome = "ok"
                      THEN [last EXCEPT ![k] =
                              [kind |-> "saved", schema |-> c.schema,
                               time |-> c.now, refused |-> NoText,
                               touched |-> FALSE, reused |-> c.prior.reused,
                               old |-> c.prior.old]]
                      ELSE [last EXCEPT ![k] = Failed(last[k])]
           /\ oks' = IF outcome = "ok" THEN [oks EXCEPT ![k] = @ + 1] ELSE oks
           /\ dels' = IF outcome = "fail" THEN dels ELSE [dels EXCEPT ![k] = 0]
  /\ call' = [call EXCEPT ![p] = NoCall]
  /\ UNCHANGED << clock, ncalls, doc >>

\* Mutant of GetConfigSchema: the read removes the record it returns.
GetConfigSchemaConsuming(p, k) ==
  /\ call[p].pc = "ready"
  /\ ret' = [NewCall("Get", k, NoText, last[k]) EXCEPT
                !.result = IF NoKvs(Count(store, k)) THEN "absent" ELSE "ok"]
  /\ store' = DeleteKey(store, k)
  /\ ncalls' = ncalls + 1
  /\ UNCHANGED << clock, call, last, oks, dels, doc >>

\* GetConfigSchema: nil, nil when the key is absent; otherwise the decoded
\* envelope with its schema transcoded back to YAML.
GetConfigSchema(p, k) ==
  /\ call[p].pc = "ready"
  /\ \E storeErr \in BOOLEAN :
       LET c == NewCall("Get", k, NoText, last[k])
           schemaData == Unmarshal(store[k])
           schemaYaml == JSONToYAML(schemaData.data.schema)
       IN  ret' =
             IF storeErr
             THEN [c EXCEPT !.err = TRUE, !.result = "Unavailable"]
             ELSE IF NoKvs(Count(store, k))
             THEN [c EXCEPT !.result = "absent"]
             ELSE IF schemaData.err \/ schemaYaml.err
             THEN [c EXCEPT !.result = "InvalidSchema"]
             ELSE [c EXCEPT !.result = "ok",
                            !.data = [schema |-> schemaYaml.text,
                                      creation_time |->
                                         schemaData.data.creation_time]]
  /\ last' = [last EXCEPT ![k] =
                IF last[k].kind = "saved"
                THEN [last[k] EXCEPT !.touched = TRUE] ELSE last[k]]
  /\ ncalls' = ncalls + 1
  /\ UNCHANGED << store, clock, call, oks, dels, doc >>

\* DeleteConfigSchema: nil when the store reports a removed key, an error
\* when it reports none.  "lost": the store removes the key but the answer
\* does not arrive before the deadline.
DeleteConfigSchema(p, k) ==
  /\ call[p].pc = "ready"
  /\ \E outcome \in {"ok", "fail", "lost"} :
       LET c == NewCall("Delete", k, NoText, last[k])
           res == Deleted(store, k)
       IN  /\ store' = IF outcome = "fail" THEN store
                       ELSE DeleteKey(store, k)
           /\ oks' = IF outcome # "fail" /\ res > 0
                     THEN [oks EXCEPT ![k] = 0] ELSE oks
           /\ ret' = [c EXCEPT !.err = (outcome # "ok"),
                               !.result = IF outcome # "ok" THEN "Unavailable"
                                          ELSE IF Removed(res) THEN "ok"
                                          ELSE "NotFound"]
           /\ last' = [last EXCEPT ![k] =
                IF outcome = "ok" /\ Removed(res)
                THEN [NoLast EXCEPT !.kind = "deleted",
                                    !.reused = (last[k].kind = "saved"),
                                    !.old = [schema |-> last[k].schema,
                                             time |-> last[k].time]]
                ELSE NoLast]
           /\ dels' = IF outcome = "ok" /\ Removed(res)
                      THEN [dels EXCEPT ![k] = @ + 1] ELSE dels
  /\ ncalls' = ncalls + 1
  /\ UNCHANGED << clock, call, doc >>

\* One pass of the loop of GetSchemasByPrefix on the entry under key k: the
\* key is split (a panic on fewer than four segments), the value decoded,
\* its schema transcoded.
DecodeEntry(det, un) ==
  IF det.panic THEN [outcome |-> "panic", details |-> NoDetails, data |-> NoData]
  ELSE IF un.err \/ JSONToYAML(un.data.schema).err
  THEN [outcome |-> "InvalidSchema", details |-> NoDetails, data |-> NoData]
  ELSE [outcome |-> "ok", details |-> det.details,
        data |-> [schema |-> JSONToYAML(un.data.schema).text,
                  creation_time |-> un.data.creation_time]]

\* Mutant of LoopResult: an entry that fails is left out of the result.
LoopResultSkipping(entries) ==
  [result |-> "ok",
   list |-> SortSlice([i \in 1..Cardinality({j \in 1..Len(entries) :
                                               entries[j].outcome = "ok"}) |->
              LET j == CHOOSE j \in 1..Len(entries) :
                         /\ entries[j].outcome = "ok"
                         /\ Cardinality({h \in 1..j : entries[h].outcome = "ok"}) = i
              IN  [details |-> entries[j].details, data |-> entries[j].data]])]

\* The loop over the entries in key order: the first one that fails ends
\* the call; otherwise the decoded entries are sorted by version.
LoopResult(entries) ==
  IF \E i \in 1..Len(entries) : entries[i].outcome # "ok"
  THEN [result |-> entries[CHOOSE i \in 1..Len(entries) :
                             /\ entries[i].outcome # "ok"
                             /\ \A j \in 1..(i - 1) : entries[j].outcome = "ok"].outcome,
        list |-> << >>]
  ELSE [result |-> "ok",
        list |-> SortSlice([i \in 1..Len(entries) |->
                   [details |-> entries[i].details, data |-> entries[i].data]])]

\* The body of GetSchemasByPrefix after a Get WithPrefix that answered:
\* nil, nil when nothing matches.
SchemasByPrefix(st, prefix) ==
  LoopResult([i \in 1..Len(GetWithPrefix(st, prefix)) |->
     DecodeEntry(getSchemaDetailsFromKey(GetWithPrefix(st, prefix)[i]),
                 Unmarshal(st[GetWithPrefix(st, prefix)[i]]))])

\* GetSchemasByPrefix.
GetSchemasByPrefix(p, prefix) ==
  /\ call[p].pc = "ready"
  /\ \E storeErr \in BOOLEAN :
       LET c == NewCall("List", prefix, NoText, NoLast)
           r == SchemasByPrefix(store, prefix)
       IN  ret' =
             IF storeErr
             THEN [c EXCEPT !.err = TRUE, !.result = "Unavailable"]
             ELSE [c EXCEPT !.result = r.result, !.list = r.list]
  /\ ncalls' = ncalls + 1
  /\ UNCHANGED << store, clock, call, last, oks, dels, doc >>

\* GetLatestVersionByPrefix: the version of the last schema GetSchemasByPrefix
\* returns, "" when it returns none.
GetLatestVersionByPrefix(p, prefix) ==
  /\ call[p].pc = "ready"
  /\ \E storeErr \in BOOLEAN :
       LET c == NewCall("Latest", prefix, NoText, NoLast)
           r == SchemasByPrefix(store, prefix)
       IN  ret' =
             IF storeErr
             THEN [c EXCEPT !.err = TRUE, !.result = "Unavailable"]
             ELSE IF r.result # "ok"
             THEN [c EXCEPT !.result = r.result]
             ELSE IF Len(r.list) = 0
             THEN [c EXCEPT !.result = "ok"]
             ELSE [c EXCEPT !.result = "ok",
                            !.version = r.list[Len(r.list)].details.version]
  /\ ncalls' = ncalls + 1
  /\ UNCHANGED << store, clock, call, last, oks, dels, doc >>

\* Another client of the same etcd endpoint writes a value under a key.
\* It is no call of the repository: nothing returns, and what the callers
\* knew of the key is void.
ForeignPut(k, v) ==
  /\ store' = PutKey(store, k, v)
  /\ last' = [last EXCEPT ![k] = NoLast]
  /\ dels' = [dels EXCEPT ![k] = 0]
  /\ ncalls' = ncalls + 1
  /\ UNCHANGED << clock, call, ret, oks, doc >>

\* The deadline of the context.WithTimeout of a call passes while the call
\* is between its store calls.  (A deadline that passes during a store call
\* is the failure of that store call.)
Expire(p) ==
  /\ call[p].pc = "put" /\ call[p].ctx = "live"
  /\ call' = [call EXCEPT ![p].ctx = "expired"]
  /\ UNCHANGED << store, clock, ret, ncalls, last, oks, dels, doc >>

\* The caller cancels the context it handed to the call; the derived
\* context of the call is done with it.
Cancel(p) ==
  /\ call[p].pc = "put" /\ call[p].ctx = "live"
  /\ call' = [call EXCEPT ![p].ctx = "cancelled"]
  /\ UNCHANGED << store, clock, ret, ncalls, last, oks, dels, doc >>

\* The transcoder alone, as SaveConfigSchema applies it to a text.
ToCanonical ==
  /\ doc.step = "text"
  /\ \E order \in MapOrders :
       doc' = [doc EXCEPT !.step = IF YAMLToJSON(doc.text, order).err
                                   THEN "refused" ELSE "canonical",
                          !.canonical = YAMLToJSON(doc.text, order).text]
  /\ UNCHANGED << store, clock, call, ret, ncalls, last, oks, dels >>

\* The transcoder alone, as GetConfigSchema and GetSchemasByPrefix apply
\* it to a stored schema.
ToHuman ==
  /\ doc.step = "canonical"
  /\ doc' = [doc EXCEPT !.step = IF JSONToYAML(doc.canonical).err
                                  THEN "refused" ELSE "human",
                         !.human = JSONToYAML(doc.canonical).text]
  /\ UNCHANGED << store, clock, call, ret, ncalls, last, oks, dels >>

\* Time passes.
Tick ==
  /\ clock < MaxClock
  /\ clock' = clock + 1
  /\ UNCHANGED << store, call, ret, ncalls, last, oks, dels, doc >>

\* ------------------------------------------------------- specifications
\* Concurrent callers on the keys of SomeKeys.
Next ==
  \/ Tick
  \/ \E p \in Procs, k \in SomeKeys, s \in Schemas :
        ncalls < MaxCalls /\ SaveConfigSchema(p, k, s)
  \/ \E p \in Procs : SaveConfigSchemaPut(p)
  \/ \E p \in Procs, k \in SomeKeys : ncalls < MaxCalls /\ GetConfigSchema(p, k)
  \/ \E p \in Procs, k \in SomeKeys : ncalls < MaxCalls /\ DeleteConfigSchema(p, k)

Spec == Init /\ [][Next]_vars

\* Concurrent callers that save and delete on the keys of SomeKeys.
NextRace ==
  \/ \E p \in Procs, k \in SomeKeys, s \in Schemas :
        ncalls < MaxRaceCalls /\ SaveConfigSchema(p, k, s)
  \/ \E p \in Procs : SaveConfigSchemaPut(p)
  \/ \E p \in Procs, k \in SomeKeys :
        ncalls < MaxRaceCalls /\ DeleteConfigSchema(p, k)

SpecRace == Init /\ [][NextRace]_vars

\* One caller, one call after the other, on the keys of SomeKeys.
NextSeq ==
  \/ Tick
  \/ \E k \in SomeKeys, s \in Schemas :
        ncalls < MaxSeqCalls /\ SaveConfigSchema(1, k, s)
  \/ SaveConfigSchemaPut(1)
  \/ \E k \in SomeKeys : ncalls < MaxSeqCalls /\ GetConfigSchema(1, k)
  \/ \E k \in SomeKeys : ncalls < MaxSeqCalls /\ DeleteConfigSchema(1, k)

SpecSeq == Init /\ [][NextSeq]_vars

\* One caller whose context can end between the store calls of a call.
NextCtx ==
  \/ \E k \in SomeKeys, s \in Schemas :
        ncalls < MaxCtxCalls /\ SaveConfigSchema(1, k, s)
  \/ Expire(1)
  \/ Cancel(1)
  \/ SaveConfigSchemaPut(1)
  \/ \E k \in SomeKeys : ncalls < MaxCtxCalls /\ GetConfigSchema(1, k)
  \/ \E k \in SomeKeys : ncalls < MaxCtxCalls /\ DeleteConfigSchema(1, k)

SpecCtx == Init /\ [][NextCtx]_vars

\* A store call returns: the store answers or the context ends.
SpecCtxFair == SpecCtx /\ WF_vars(SaveConfigSchemaPut(1))

\* One caller that saves texts and reads them back.
NextRead ==
  \/ Tick
  \/ \E k \in SomeKeys, s \in AuthoredSchemas :
        ncalls < MaxReadCalls /\ SaveConfigSchema(1, k, s)
  \/ SaveConfigSchemaPut(1)
  \/ \E k \in SomeKeys : ncalls < MaxReadCalls /\ GetConfigSchema(1, k)

SpecRead == Init /\ [][NextRead]_vars

\* The transcoder on the texts of Texts.
InitCodec ==
  Fresh /\ doc \in {[NoDoc EXCEPT !.step = "text", !.text = t] : t \in Texts}

NextCodec == ToCanonical \/ ToHuman

SpecCodec == InitCodec /\ [][NextCodec]_vars

\* One caller that saves under any key and lists by prefix.
NextList ==
  \/ \E k \in Keys, s \in Schemas :
        ncalls < MaxListCalls /\ SaveConfigSchema(1, k, s)
  \/ SaveConfigSchemaPut(1)
  \/ \E prefix \in Prefixes :
        ncalls < MaxListCalls /\ GetSchemasByPrefix(1, prefix)
  \/ \E prefix \in Prefixes :
        ncalls < MaxListCalls /\ GetLatestVersionByPrefix(1, prefix)

SpecList == Init /\ [][NextList]_vars

\* One caller that saves, reads and lists, and a foreign writer.
NextStore ==
  \/ \E k \in StoreKeys, s \in Schemas :
        ncalls < MaxStoreCalls /\ SaveConfigSchema(1, k, s)
  \/ SaveConfigSchemaPut(1)
  \/ \E k \in StoreKeys, v \in ForeignValues :
        ncalls < MaxStoreCalls /\ call[1].pc = "ready" /\ ForeignPut(k, v)
  \/ \E k \in StoreKeys : ncalls < MaxStoreCalls /\ GetConfigSchema(1, k)
  \/ \E prefix \in Prefixes :
        ncalls < MaxStoreCalls /\ GetSchemasByPrefix(1, prefix)
  \/ \E prefix \in Prefixes :
        ncalls < MaxStoreCalls /\ GetLatestVersionByPrefix(1, prefix)

SpecStore == Init /\ [][NextStore]_vars

\* ----------------------------------------------------------- properties
Range(s) == {s[i] : i \in 1..Len(s)}

\* The structure of a document: its fields and their values at every
\* level, without the order of the fields and without the comments.
Struct(t) ==
  {<< f.name, f.val.kind, f.val.v, {<< g.name, g.v >> : g \in Range(f.val.m)} >> :
     f \in Range(t.fields)}

StructEquiv(a, b) == a.valid /\ b.valid /\ Struct(a) = Struct(b)

\* The human forms of a text: what a record written for it reads back as.
HumanForms(s) ==
  {JSONToYAML(YAMLToJSON(s, order).text).text : order \in MapOrders}

\* The keys the store holds under a prefix.
Matching(st, prefix) == {k \in Keys : st[k].kind # "none" /\ HasPrefix(k, prefix)}

\* Version precedence as the specification states it: major, minor and
\* patch compared as numbers, with or without a leading "v".
WithV(v) == IF v # << >> /\ v[1] = "v" THEN v ELSE << "v" >> \o v
Precedence(v, w) == Compare(WithV(v), WithV(w))

\* A key that is not four non-empty segments.
Malformed(k) ==
  LET tokens == Split(k)
  IN  Len(tokens) # 4 \/ \E i \in 1..Len(tokens) : tokens[i] = << >>

\* C1: of the SaveSchema calls on one key that race from the absent key,
\* exactly one returns success: between two removals of a key, at most one
\* Save on it returns success.
C1_OneSaveSucceeds == \A k \in Keys : oks[k] <= 1

\* C2: a Save never overwrites a record: while a key holds a record, the
\* schema stored under it stays the one the store accepted first.
C2_SaveNeverOverwrites ==
  [][\A k \in Keys :
       (store[k].kind # "none" /\ store'[k].kind # "none")
          => store'[k].schema = store[k].schema]_vars

C4_CreationTimeFixed ==
  [][\A k \in Keys :
       (store[k].kind # "none" /\ store'[k].kind # "none")
          => store'[k].creation_time = store[k].creation_time]_vars

\* C5: a GetSchema(k) that directly follows a successful SaveSchema(k, s)
\* returns a present envelope, with a schema structurally equivalent to s
\* and the creationTime that Save assigned.
C5_GetAfterSave ==
  (ret.op = "Get" /\ ret.prior.kind = "saved" /\ ~ret.prior.touched /\ ~ret.err)
     => /\ ret.result = "ok"
        /\ StructEquiv(ret.data.schema, ret.prior.schema)
        /\ ret.data.creation_time = ret.prior.time

\* C6: a DeleteSchema(k) the store answers fails with NotFound and leaves
\* the store as it was when k holds no record, and succeeds and removes the
\* record when k holds one; a GetSchema(k) after a successful Delete (no
\* Save in between) reports absent.
C6_Delete ==
  /\ (ret.op = "Delete" /\ ~ret.err)
        => IF ret.pre[ret.key].kind = "none"
           THEN ret.result = "NotFound" /\ store = ret.pre
           ELSE ret.result = "ok" /\ store[ret.key].kind = "none"
  /\ (ret.op = "Get" /\ ret.prior.kind = "deleted" /\ ~ret.err)
        => ret.result = "absent"

\* A Get that reports absent after a Delete removed a record.
C6_Witness ==
  ret.op = "Get" /\ ret.prior.kind = "deleted" /\ ret.result = "absent"

\* A version written major.minor.patch, as in the specification's example.
Plain(v) == v # << >> /\ v[1] # "v" /\ parse(WithV(v)).ok

\* C7: ListByPrefix over versions written major.minor.patch returns them in
\* ascending numeric order of major, minor, patch.
C7_ListAscending ==
  (ret.op = "List" /\ ret.result = "ok"
     /\ \A i \in 1..Len(ret.list) : Plain(ret.list[i].details.version))
     => \A i, j \in 1..Len(ret.list) :
           i < j => Precedence(ret.list[i].details.version,
                               ret.list[j].details.version) <= 0

\* C8: LatestVersion returns the version of highest precedence among the
\* records under the prefix, and the empty string when there is none.
C8_LatestIsHighest ==
  (ret.op = "Latest" /\ ret.result = "ok")
     => IF Matching(store, ret.key) = {}
        THEN ret.version = << >>
        ELSE \A k \in Matching(store, ret.key) :
                Precedence(Split(k)[4], ret.version) <= 0

\* C9: a ListByPrefix that the store answers and that matches a key that is
\* not four non-empty segments returns the error MalformedKey.
C9_MalformedKeyIsError ==
  (ret.op = "List" /\ ~ret.err /\ \E k \in Matching(store, ret.key) : Malformed(k))
     => ret.result = "MalformedKey"

\* C10: a SaveSchema that returns a failure leaves the store as it was when
\* the call started.
C10_FailedSaveWritesNothing ==
  (ret.op = "Save" /\ ret.result # "ok") => store = ret.pre

\* A stored value that is no envelope the repository can decode.
Corrupt(v) == v \in ForeignValues

\* The entry of a listing that belongs to the record under key k: the first
\* four segments of the key and the record in its human form.
EntryOf(st, k) ==
  [details |-> [organization |-> Split(k)[1], namespace |-> Split(k)[2],
                schemaName |-> Split(k)[3], version |-> Split(k)[4]],
   data |-> [schema |-> [fmt |-> "yaml", valid |-> TRUE, comment |-> FALSE,
                         fields |-> st[k].schema.fields],
             creation_time |-> st[k].creation_time]]

\* The list holds exactly one entry for every key of M.
OneEntryEach(list, st, M) ==
  /\ Len(list) = Cardinality(M)
  /\ \E f \in [1..Len(list) -> M] :
        /\ \A i, j \in 1..Len(list) : i # j => f[i] # f[j]
        /\ \A i \in 1..Len(list) : list[i] = EntryOf(st, f[i])

C12_GetAbsentIsNoError ==
  ret.op = "Get"
     => /\ ret.err <=> ret.result = "Unavailable"
        /\ ~ret.err =>
              ret.result = (IF ret.pre[ret.key].kind = "none" THEN "absent"
                            ELSE IF Corrupt(ret.pre[ret.key]) THEN "InvalidSchema"
                            ELSE "ok")
        /\ ret.result = "absent" => ret.data = NoData

\* A Get that reports absent, without error, while another key holds a
\* record.
C12_Witness ==
  /\ ret.op = "Get" /\ ret.result = "absent" /\ ~ret.err
  /\ store[ret.key].kind = "none"
  /\ \E k \in Keys : store[k].kind = "json"

\* C13: a DeleteSchema returns success only if the store removed a record
\* under its key in that call, and of the DeleteSchema calls on one stored
\* record (no write of the key in between) at most one returns success:
\* the one that finds the record succeeds, one that the store answers
\* after the record is gone returns NotFound.
C13_OneDeleteSucceeds ==
  /\ \A k \in Keys : dels[k] <= 1
  /\ (ret.op = "Delete" /\ ret.result = "ok")
        => ret.pre[ret.key].kind # "none" /\ store[ret.key].kind = "none"
  /\ (ret.op = "Delete" /\ ~ret.err)
        => (ret.result = "NotFound" <=> ret.pre[ret.key].kind = "none")

\* A Delete that returns NotFound after another Delete succeeded on the
\* record.
C13_Witness ==
  /\ ret.op = "Delete" /\ ret.result = "NotFound"
  /\ dels[ret.key] = 1 /\ store[ret.key].kind = "none"

\* The values that Saves in flight are about to write.
InFlight == {call[p].serializedData : p \in {q \in Procs : call[q].pc = "put"}}

\* Store calls on two distinct keys commute: either order leaves the same
\* store, and neither changes what the other finds under its key.
Commute(st, k, j, v, w) ==
  /\ PutKey(PutKey(st, k, v), j, w) = PutKey(PutKey(st, j, w), k, v)
  /\ PutKey(DeleteKey(st, j), k, v) = DeleteKey(PutKey(st, k, v), j)
  /\ DeleteKey(DeleteKey(st, j), k) = DeleteKey(DeleteKey(st, k), j)
  /\ Count(PutKey(st, j, w), k) = Count(st, k)
  /\ Count(DeleteKey(st, j), k) = Count(st, k)
  /\ Deleted(PutKey(st, j, w), k) = Deleted(st, k)
  /\ Deleted(DeleteKey(st, j), k) = Deleted(st, k)

\* C14: operations on different keys are independent.  A step of a
\* SaveSchema or DeleteSchema changes no record but the one under its own
\* key, and the store calls of operations on distinct keys commute, so
\* that callers racing on distinct keys get the results and leave the
\* store of any sequential order.
C14_KeysIndependent ==
  [][/\ \A k \in Keys :
          store'[k] # store[k]
             => ret' # ret /\ ret'.key = k /\ ret'.op \in {"Save", "Delete"}
     /\ \A k \in SomeKeys, j \in SomeKeys, v \in InFlight, w \in InFlight :
          k # j => Commute(store, k, j, v, w)]_vars

\* A Save that returns success, with its record in the store, after a call
\* on another key changed that key between the Get and the Put of the Save.
C14_Witness ==
  /\ ret.op = "Save" /\ ret.result = "ok"
  /\ store[ret.key] = ret.serializedData
  /\ \E j \in Keys : j # ret.key /\ store[j] # ret.pre[j]

\* Every call returns: a Save that has made its Get goes on to its Put,
\* which the store answers or the context ends.
Returns == (call[1].pc = "put") ~> (call[1].pc = "ready")

\* C15: every operation returns, and after the deadline of a call has
\* expired no store call of it takes effect: the call returns with the
\* store as it was when the deadline expired.
C15_NoStoreCallAfterDeadline ==
  [][\A p \in Procs :
       (call[p].ctx = "expired" /\ call'[p].pc = "ready") => store' = store]_vars

\* C16: a call whose context the caller has cancelled returns an error
\* and performs no later store write: a Save cancelled after its existence
\* check returns with the store as it was when it was cancelled.
C16_NoWriteAfterCancel ==
  [][\A p \in Procs :
       (call[p].ctx = "cancelled" /\ call'[p].pc = "ready")
          => ret'.err /\ store' = store]_vars

\* A version string that is a version, written with or without a leading
\* "v".
WellFormed(v) == parse(WithV(v)).ok

\* C17: a record with a malformed version string does not make ListByPrefix
\* crash or fail, it is ordered before every record with a well-formed
\* version, and LatestVersion returns a well-formed version whenever a
\* record under the prefix has one.
C17_MalformedVersionLowest ==
  /\ (ret.op \in {"List", "Latest"} /\ ~ret.err
        /\ \A k \in Matching(store, ret.key) : ~Malformed(k))
        => ret.result = "ok"
  /\ (ret.op = "List" /\ ret.result = "ok")
        => \A i, j \in 1..Len(ret.list) :
              (WellFormed(ret.list[i].details.version)
                 /\ ~WellFormed(ret.list[j].details.version)) => j < i
  /\ (ret.op = "Latest" /\ ret.result = "ok"
        /\ \E k \in Matching(store, ret.key) : WellFormed(Split(k)[4]))
        => WellFormed(ret.version)

\* C18: for every human-authored text that ToCanonical accepts,
\* ToHuman(ToCanonical(text)) is structurally equivalent to the text: it
\* has the fields of the text, with their values and their nesting.
C18_RoundTrip ==
  doc.step = "human" => StructEquiv(doc.human, doc.text)

\* C19: GetSchema, ListByPrefix and LatestVersion are read-only.  Whatever
\* one of them returns, its step leaves every record of the store as it
\* was, and it leaves nothing behind in the repository: no call in
\* progress changes and none is left open.
C19_ReadsChangeNothing ==
  [][(ret' # ret /\ ret'.op \in {"Get", "List", "Latest"})
        => /\ store' = store
           /\ call' = call
           /\ \A p \in Procs : call'[p].pc = "ready"]_vars

\* A LatestVersion that returned a version, with the store as it was when
\* the call started.
C19_Witness ==
  /\ ret.op = "Latest" /\ ret.result = "ok" /\ ret.version # << >>
  /\ store = ret.pre

====
